---- MODULE Spec2Model ----
(***************************************************************************)
(* Model of BookSynopsisGenerator (book_synopsis_generator.py): a bigram    *)
(* Markov-chain text generator.  Strings are sequences of one-character     *)
(* strings; a token is a non-empty string without whitespace.               *)
(***************************************************************************)
EXTENDS Integers, Sequences, FiniteSets

(* ---------------------------------------------------------------------- *)
(* Bounds of the model                                                     *)
(* ---------------------------------------------------------------------- *)
MaxPieces == 3       \* pieces (words or empty gaps) of a training text
MaxTrains == 1       \* load_training_data calls in Spec
MaxRetrains == 2     \* load_training_data calls in SpecRetrain
MaxMaxLength == 3    \* largest max_length argument
MaxMinLength == 3    \* largest min_length argument
MaxCount == 1        \* largest count argument
MaxStrLen == 4       \* longest string given to _post_process_text on its own

(* ---------------------------------------------------------------------- *)
(* Characters                                                              *)
(* ---------------------------------------------------------------------- *)
Whitespace == {" "}
UpperChars == {"A", "B", "T"}
sentence_enders == {".", "!", "?"}
PunctChars == {".", "!", "?", ",", ":", ";"}

Vocabulary == {<<"A">>, <<"b">>, <<"A", ".">>}
StrAlphabet == {"a", "A", " ", ".", "!", "?", ",", ":", ";"}

IsSpace(c) == c \in Whitespace
IsUpper(c) == c \in UpperChars

ToUpper(c) == IF c = "a" THEN "A" ELSE IF c = "b" THEN "B" ELSE c

Range(s) == {s[k] : k \in DOMAIN s}
Last(s) == s[Len(s)]

SeqsUpTo(S, n) == UNION {[1..k -> S] : k \in 0..n}

(* ---------------------------------------------------------------------- *)
(* _tokenize_text                                                          *)
(* ---------------------------------------------------------------------- *)
RECURSIVE LStrip(_)
LStrip(t) == IF t # <<>> /\ IsSpace(Head(t)) THEN LStrip(Tail(t)) ELSE t

RECURSIVE RStrip(_)
RStrip(t) == IF t # <<>> /\ IsSpace(Last(t)) THEN RStrip(SubSeq(t, 1, Len(t) - 1)) ELSE t

Strip(t) == RStrip(LStrip(t))

RECURSIVE CollapseWs(_)
CollapseWs(t) ==
    IF t = <<>> THEN <<>>
    ELSE IF IsSpace(Head(t)) THEN <<" ">> \o CollapseWs(LStrip(Tail(t)))
    ELSE <<Head(t)>> \o CollapseWs(Tail(t))

RECURSIVE WordLen(_)
WordLen(t) == IF t = <<>> \/ IsSpace(Head(t)) THEN 0 ELSE 1 + WordLen(Tail(t))

RECURSIVE Split(_)
Split(t) ==
    LET s == LStrip(t) IN
    IF s = <<>> THEN <<>>
    ELSE LET n == WordLen(s) IN <<SubSeq(s, 1, n)>> \o Split(SubSeq(s, n + 1, Len(s)))

tokenize_text(text) == Split(CollapseWs(Strip(text)))

(* ---------------------------------------------------------------------- *)
(* The model: bigrams (defaultdict(list)) and sentence_starters            *)
(* ---------------------------------------------------------------------- *)
EmptyDict == [x \in {} |-> <<>>]

EndsWithEnder(word) == \E end \in sentence_enders : word # <<>> /\ Last(word) = end

\* Variant: a successor already recorded for the key is not recorded again.
DictAppendDedup(b, k, v) ==
    [x \in DOMAIN b \cup {k} |->
        IF x = k
        THEN (IF k \in DOMAIN b
              THEN (IF v \in Range(b[k]) THEN b[k] ELSE Append(b[k], v))
              ELSE <<v>>)
        ELSE b[x]]

DictAppend(b, k, v) ==
    [x \in DOMAIN b \cup {k} |->
        IF x = k THEN Append(IF k \in DOMAIN b THEN b[k] ELSE <<>>, v) ELSE b[x]]

RECURSIVE TrainLoop(_, _, _, _)
TrainLoop(b, s, words, i) ==
    IF i >= Len(words) - 1 THEN [bigrams |-> b, starters |-> s]
    ELSE LET current_word == words[i + 1]
             next_word == words[i + 2]
             b2 == DictAppend(b, current_word, next_word)
             s2 == IF i > 0 /\ EndsWithEnder(words[i]) /\ IsUpper(current_word[1])
                   THEN Append(s, current_word) ELSE s
         IN TrainLoop(b2, s2, words, i + 1)

\* The body of load_training_data once the text is tokenized.
build_model(b, s, words) ==
    LET m == TrainLoop(b, s, words, 0)
    IN [bigrams |-> m.bigrams,
        starters |-> IF words # <<>> /\ IsUpper(words[1][1])
                     THEN Append(m.starters, words[1]) ELSE m.starters]

load_training_data(b, s, text) == build_model(b, s, tokenize_text(text))

(* ---------------------------------------------------------------------- *)
(* _post_process_text                                                      *)
(* ---------------------------------------------------------------------- *)
RECURSIVE SpaceRunLen(_)
SpaceRunLen(t) == IF t # <<>> /\ IsSpace(Head(t)) THEN 1 + SpaceRunLen(Tail(t)) ELSE 0

\* re.sub(r'\s+([.!?,:;])', r'\1', text)
RECURSIVE SubSpacePunct(_)
SubSpacePunct(t) ==
    IF t = <<>> THEN <<>>
    ELSE LET n == SpaceRunLen(t) IN
         IF n >= 1 /\ n < Len(t) /\ t[n + 1] \in PunctChars
         THEN <<t[n + 1]>> \o SubSpacePunct(SubSeq(t, n + 2, Len(t)))
         ELSE <<Head(t)>> \o SubSpacePunct(Tail(t))

\* re.sub(r'([.!?])\s*([A-Z])', r'\1 \2', text)
RECURSIVE SubEnderUpper(_)
SubEnderUpper(t) ==
    IF t = <<>> THEN <<>>
    ELSE LET r == Tail(t)
             n == SpaceRunLen(r)
         IN IF Head(t) \in {".", "!", "?"} /\ n < Len(r) /\ IsUpper(r[n + 1])
            THEN <<Head(t), " ", r[n + 1]>> \o SubEnderUpper(SubSeq(r, n + 2, Len(r)))
            ELSE <<Head(t)>> \o SubEnderUpper(r)

UpperAll(t) == [k \in DOMAIN t |-> ToUpper(t[k])]

Capitalize(t) ==
    IF t # <<>>
    THEN (IF Len(t) > 1 THEN <<ToUpper(t[1])>> \o Tail(t) ELSE UpperAll(t))
    ELSE t

EnsureEnding(t) == IF t # <<>> /\ ~EndsWithEnder(t) THEN t \o <<".">> ELSE t

\* Variant: the final '.' is appended after the two substitutions.
post_process_late_ending(text) ==
    Capitalize(EnsureEnding(SubEnderUpper(SubSpacePunct(text))))

post_process_text(text) ==
    Capitalize(SubEnderUpper(SubSpacePunct(EnsureEnding(text))))

RECURSIVE Join(_)
Join(tokens) ==
    IF tokens = <<>> THEN <<>>
    ELSE IF Len(tokens) = 1 THEN tokens[1]
    ELSE tokens[1] \o <<" ">> \o Join(Tail(tokens))

(* ---------------------------------------------------------------------- *)
(* _choose_starting_word, get_stats and the lookups of generate_synopsis   *)
(* ---------------------------------------------------------------------- *)
The == <<"T", "h", "e">>
Fallback == <<"N", "o", " ", "t", "r", "a", "i", "n", "i", "n", "g", " ",
              "d", "a", "t", "a", " ", "a", "v", "a", "i", "l", "a", "b", "l", "e", ".">>
DefaultMinLength == 20

capitalized_words(b) == {word \in DOMAIN b : word # <<>> /\ IsUpper(word[1])}

\* Variant: the keys of the table are preferred to the starter pool.
choose_starting_word_keys_first(b, s) ==
    IF DOMAIN b # {}
    THEN (IF capitalized_words(b) # {}
          THEN {[word |-> w, branch |-> "capitalized"] : w \in capitalized_words(b)}
          ELSE {[word |-> w, branch |-> "anykey"] : w \in DOMAIN b})
    ELSE IF s # <<>>
    THEN {[word |-> w, branch |-> "starters"] : w \in Range(s)}
    ELSE {[word |-> The, branch |-> "default"]}

\* The set of outcomes random.choice can produce, with the branch taken.
choose_starting_word(b, s) ==
    IF s # <<>>
    THEN {[word |-> w, branch |-> "starters"] : w \in Range(s)}
    ELSE IF DOMAIN b # {}
    THEN (IF capitalized_words(b) # {}
          THEN {[word |-> w, branch |-> "capitalized"] : w \in capitalized_words(b)}
          ELSE {[word |-> w, branch |-> "anykey"] : w \in DOMAIN b})
    ELSE {[word |-> The, branch |-> "default"]}

\* Variant: defaultdict indexing (self.bigrams[word]), which inserts a missing key.
bigrams_index(b, word) ==
    [next_words |-> IF word \in DOMAIN b THEN b[word] ELSE <<>>,
     table |-> [x \in DOMAIN b \cup {word} |-> IF x \in DOMAIN b THEN b[x] ELSE <<>>]]

\* self.bigrams.get(current_word, []): the value read, and the table afterwards.
bigrams_get(b, word) ==
    [next_words |-> IF word \in DOMAIN b THEN b[word] ELSE <<>>, table |-> b]

\* Variant: the fallback is taken only when the pool is empty as well.
no_bigrams_or_starters(b, s) == DOMAIN b = {} /\ s = <<>>

\* "if not self.bigrams"
no_bigrams(b, s) == DOMAIN b = {}

\* Variant: the natural ending ignores min_length.
natural_ending_no_min(i, min_len, next_word) == EndsWithEnder(next_word)

\* "i >= min_length - 1 and any(word.endswith(end) ...)"
natural_ending(i, min_len, next_word) == i >= min_len - 1 /\ EndsWithEnder(next_word)

\* Variant: range(max_length).
loop_range_one_more(max_len) == max_len

\* range(max_length - 1): the number of iterations of the walk
loop_range(max_len) == max_len - 1

RECURSIVE SumLens(_, _)
SumLens(b, keys) ==
    IF keys = {} THEN 0
    ELSE LET k == CHOOSE x \in keys : TRUE IN Len(b[k]) + SumLens(b, keys \ {k})

get_stats(b, s) ==
    [unique_words |-> Cardinality(DOMAIN b),
     total_transitions |-> SumLens(b, DOMAIN b),
     sentence_starters |-> Cardinality(Range(s))]

NoStats == [unique_words |-> 0, total_transitions |-> 0, sentence_starters |-> 0]

(* ---------------------------------------------------------------------- *)
(* State                                                                   *)
(* ---------------------------------------------------------------------- *)
VARIABLES
    bigrams,            \* self.bigrams
    sentence_starters,  \* self.sentence_starters
    pc,                 \* "idle", "multi", "loop", "post", "returned"
    mode,               \* the running call: "none", "single", "multiple", "stats"
    max_length,         \* arguments of the running generate_synopsis
    min_length,
    current_word,       \* locals of generate_synopsis
    synopsis,
    i,
    result,             \* value returned by the last generate_synopsis
    remaining,          \* iterations left in generate_multiple_synopses
    synopses,           \* list built by generate_multiple_synopses
    stats,              \* value returned by the last get_stats
    stop,               \* history: why the walk ended
    startBranch,        \* history: branch taken by _choose_starting_word
    trainCount,         \* history: number of load_training_data calls
    lastWords,          \* history: tokens of the last training text
    ppIn, ppOut, ppPhase \* _post_process_text called on its own

model == <<bigrams, sentence_starters>>
locals == <<max_length, min_length, current_word, synopsis, i, stop, startBranch>>
history == <<trainCount, lastWords>>
ppVars == <<ppIn, ppOut, ppPhase>>
vars == <<bigrams, sentence_starters, pc, mode, max_length, min_length, current_word,
          synopsis, i, result, remaining, synopses, stats, stop, startBranch,
          trainCount, lastWords, ppIn, ppOut, ppPhase>>

\* Training texts: words and empty pieces separated by single spaces, so that
\* leading, trailing and repeated whitespace occur.
Texts == {Join(p) : p \in SeqsUpTo(Vocabulary \cup {<<>>}, MaxPieces)}
Strings == SeqsUpTo(StrAlphabet, MaxStrLen)

\* __init__, no call in progress
Init ==
    /\ bigrams = EmptyDict
    /\ sentence_starters = <<>>
    /\ pc = "idle"
    /\ mode = "none"
    /\ max_length = 0
    /\ min_length = 0
    /\ current_word = <<>>
    /\ synopsis = <<>>
    /\ i = 0
    /\ result = <<>>
    /\ remaining = 0
    /\ synopses = <<>>
    /\ stats = NoStats
    /\ stop = "none"
    /\ startBranch = "none"
    /\ trainCount = 0
    /\ lastWords = <<>>
    /\ ppIn = <<>>
    /\ ppOut = <<>>
    /\ ppPhase = 0

(* ---------------------------------------------------------------------- *)
(* Operations                                                              *)
(* ---------------------------------------------------------------------- *)
LoadTrainingData(text) ==
    /\ pc = "idle"
    /\ LET m == load_training_data(bigrams, sentence_starters, text) IN
         /\ bigrams' = m.bigrams
         /\ sentence_starters' = m.starters
    /\ trainCount' = trainCount + 1
    /\ lastWords' = tokenize_text(text)
    /\ UNCHANGED <<pc, mode, locals, result, remaining, synopses, stats, ppVars>>

\* The value generate_synopsis returned goes back to its caller.
Deliver(r) ==
    /\ result' = r
    /\ IF mode' = "multiple"
       THEN synopses' = Append(synopses, r) /\ pc' = "multi"
       ELSE synopses' = synopses /\ pc' = "returned"

\* Entry of generate_synopsis up to the first iteration of the walk.
EnterGenerate(max_len, min_len) ==
    /\ max_length' = max_len
    /\ min_length' = min_len
    /\ IF no_bigrams(bigrams, sentence_starters)
       THEN /\ Deliver(Fallback)
            /\ current_word' = <<>>
            /\ synopsis' = <<>>
            /\ i' = 0
            /\ stop' = "fallback"
            /\ startBranch' = "none"
       ELSE /\ \E c \in choose_starting_word(bigrams, sentence_starters) :
                 /\ current_word' = c.word
                 /\ synopsis' = <<c.word>>
                 /\ startBranch' = c.branch
            /\ i' = 0
            /\ stop' = "none"
            /\ pc' = "loop"
            /\ UNCHANGED <<result, synopses>>

GenerateSynopsis(max_len, min_len) ==
    /\ pc = "idle"
    /\ mode' = "single"
    /\ EnterGenerate(max_len, min_len)
    /\ UNCHANGED <<model, remaining, stats, history, ppVars>>

GenerateMultipleSynopses(count, max_len) ==
    /\ pc = "idle"
    /\ pc' = "multi"
    /\ mode' = "multiple"
    /\ remaining' = count
    /\ synopses' = <<>>
    /\ max_length' = max_len
    /\ UNCHANGED <<model, min_length, current_word, synopsis, i, stop, startBranch,
                   result, stats, history, ppVars>>

\* One pass of "for _ in range(count)": call generate_synopsis(max_length).
MultipleIterate ==
    /\ pc = "multi"
    /\ remaining > 0
    /\ remaining' = remaining - 1
    /\ mode' = mode
    /\ EnterGenerate(max_length, DefaultMinLength)
    /\ UNCHANGED <<model, stats, history, ppVars>>

MultipleReturn ==
    /\ pc = "multi"
    /\ remaining = 0
    /\ pc' = "returned"
    /\ UNCHANGED <<model, mode, locals, result, remaining, synopses, stats, history, ppVars>>

\* One iteration of "for i in range(max_length - 1)", or its exhaustion.
WalkStep ==
    /\ pc = "loop"
    /\ IF i >= loop_range(max_length)
       THEN /\ pc' = "post"
            /\ stop' = "max"
            /\ UNCHANGED <<bigrams, current_word, synopsis, i>>
       ELSE LET g == bigrams_get(bigrams, current_word) IN
            /\ bigrams' = g.table
            /\ IF g.next_words = <<>>
               THEN /\ pc' = "post"
                    /\ stop' = "deadend"
                    /\ UNCHANGED <<current_word, synopsis, i>>
               ELSE \E next_word \in Range(g.next_words) :
                    /\ synopsis' = Append(synopsis, next_word)
                    /\ IF natural_ending(i, min_length, next_word)
                       THEN /\ pc' = "post"
                            /\ stop' = "natural"
                            /\ UNCHANGED <<current_word, i>>
                       ELSE /\ pc' = "loop"
                            /\ stop' = "none"
                            /\ current_word' = next_word
                            /\ i' = i + 1
    /\ UNCHANGED <<sentence_starters, mode, max_length, min_length, startBranch, result,
                   remaining, synopses, stats, history, ppVars>>

\* "result = ' '.join(synopsis); return self._post_process_text(result)"
PostProcess ==
    /\ pc = "post"
    /\ mode' = mode
    /\ Deliver(post_process_text(Join(synopsis)))
    /\ UNCHANGED <<model, locals, remaining, stats, history, ppVars>>

\* The caller takes the returned value; the call's locals are gone.
Return ==
    /\ pc = "returned"
    /\ pc' = "idle"
    /\ mode' = "none"
    /\ max_length' = 0
    /\ min_length' = 0
    /\ current_word' = <<>>
    /\ synopsis' = <<>>
    /\ i' = 0
    /\ result' = <<>>
    /\ remaining' = 0
    /\ synopses' = <<>>
    /\ stop' = "none"
    /\ startBranch' = "none"
    /\ stats' = NoStats
    /\ UNCHANGED <<model, history, ppVars>>

GetStats ==
    /\ pc = "idle"
    /\ pc' = "returned"
    /\ mode' = "stats"
    /\ stats' = get_stats(bigrams, sentence_starters)
    /\ UNCHANGED <<model, locals, result, remaining, synopses, history, ppVars>>

\* _post_process_text applied to an arbitrary string, then to its own output.
PostProcessOnce ==
    /\ ppPhase = 0
    /\ ppOut' = post_process_text(ppIn)
    /\ ppPhase' = 1
    /\ UNCHANGED <<model, pc, mode, locals, result, remaining, synopses, stats, history, ppIn>>

PostProcessAgain ==
    /\ ppPhase = 1
    /\ ppIn' = ppOut
    /\ ppOut' = post_process_text(ppOut)
    /\ ppPhase' = 2
    /\ UNCHANGED <<model, pc, mode, locals, result, remaining, synopses, stats, history>>

Calls ==
    \/ \E max_len \in 1..MaxMaxLength, min_len \in 0..MaxMinLength :
          GenerateSynopsis(max_len, min_len)
    \/ \E count \in 0..MaxCount, max_len \in 1..MaxMaxLength :
          GenerateMultipleSynopses(count, max_len)
    \/ MultipleIterate
    \/ MultipleReturn
    \/ WalkStep
    \/ PostProcess
    \/ Return
    \/ GetStats

Next ==
    \/ trainCount < MaxTrains /\ \E text \in Texts : LoadTrainingData(text)
    \/ Calls

Spec == Init /\ [][Next]_vars

\* The same generator, trained more than once.
NextRetrain ==
    \/ trainCount < MaxRetrains /\ \E text \in Texts : LoadTrainingData(text)
    \/ Calls

SpecRetrain == Init /\ [][NextRetrain]_vars

\* _post_process_text on every string of the bounded alphabet.
InitPP ==
    /\ bigrams = EmptyDict
    /\ sentence_starters = <<>>
    /\ pc = "idle"
    /\ mode = "none"
    /\ max_length = 0
    /\ min_length = 0
    /\ current_word = <<>>
    /\ synopsis = <<>>
    /\ i = 0
    /\ result = <<>>
    /\ remaining = 0
    /\ synopses = <<>>
    /\ stats = NoStats
    /\ stop = "none"
    /\ startBranch = "none"
    /\ trainCount = 0
    /\ lastWords = <<>>
    /\ ppIn \in Strings
    /\ ppOut = <<>>
    /\ ppPhase = 0

NextPP == PostProcessOnce \/ PostProcessAgain

SpecPP == InitPP /\ [][NextPP]_vars

(* ---------------------------------------------------------------------- *)
(* Properties                                                              *)
(* ---------------------------------------------------------------------- *)
Walking == pc \in {"loop", "post"}

RECURSIVE Count(_, _)
Count(seq, x) ==
    IF seq = <<>> THEN 0 ELSE (IF Head(seq) = x THEN 1 ELSE 0) + Count(Tail(seq), x)

\* C1: re-training fully replaces the model: after any sequence of
\* load_training_data calls the table and the starter pool are those a fresh
\* generator holds after the last call alone.
C1_RetrainReplaces ==
    trainCount >= 1 =>
        LET fresh == build_model(EmptyDict, <<>>, lastWords) IN
        /\ bigrams = fresh.bigrams
        /\ sentence_starters = fresh.starters

\* C2: stopping rule: no token follows an appended token that ends in a sentence
\* ender once the output, with that token, has at least min_length tokens.
C2_StoppingRule ==
    \A k \in 2..Len(synopsis) :
        (k >= min_length /\ EndsWithEnder(synopsis[k])) => k = Len(synopsis)

\* C3: bounded length: during and after the walk the output has between 1 and
\* max_length tokens, so at most max_length - 1 tokens were sampled.
C3_BoundedLength ==
    Walking =>
        /\ Len(synopsis) >= 1
        /\ Len(synopsis) <= max_length
        /\ Len(synopsis) - 1 <= max_length - 1
        /\ i <= max_length - 1

C3_Witness ==
    /\ pc = "post"
    /\ stop = "max"
    /\ max_length = MaxMaxLength
    /\ Len(synopsis) = max_length

\* C4: stop respects min_length: a walk that ends with fewer than min_length
\* tokens ended at a dead end or at max_length, never at a sentence ender.
C4_StopRespectsMin ==
    (pc = "post" /\ Len(synopsis) < min_length) =>
        \/ stop = "deadend" /\ current_word \notin DOMAIN bigrams
        \/ stop = "max" /\ Len(synopsis) = max_length

C4_Witness ==
    /\ pc = "post"
    /\ stop = "deadend"
    /\ Len(synopsis) = 2
    /\ Len(synopsis) < min_length
    /\ EndsWithEnder(Last(synopsis))

\* C5: empty-model fallback: with an empty table, whatever the starter pool
\* holds, generate_synopsis performs no walk and returns the fallback string.
C5_EmptyModelFallback ==
    DOMAIN bigrams = {} =>
        /\ ~Walking
        /\ synopsis = <<>>
        /\ (mode = "single" /\ pc = "returned") => result = Fallback
        /\ mode = "multiple" => \A k \in DOMAIN synopses : synopses[k] = Fallback

C5_Witness ==
    /\ trainCount = 1
    /\ DOMAIN bigrams = {}
    /\ sentence_starters # <<>>
    /\ mode = "single"
    /\ pc = "returned"
    /\ result = Fallback

\* The successors of t in the token sequence w, in order of position.
SuccessorsIn(w, t) ==
    LET ks == SelectSeq([k \in 1..(Len(w) - 1) |-> k], LAMBDA k : w[k] = t)
    IN [j \in 1..Len(ks) |-> w[ks[j] + 1]]

\* C6: table construction: after one load_training_data on a fresh generator
\* the keys are the tokens that have a successor, each value lists the
\* successors in order with duplicates, and n - 1 transitions are recorded.
C6_TableConstruction ==
    trainCount = 1 =>
        LET w == lastWords
            n == Len(w)
        IN /\ DOMAIN bigrams = {w[k] : k \in 1..(n - 1)}
           /\ \A t \in DOMAIN bigrams :
                 /\ bigrams[t] = SuccessorsIn(w, t)
                 /\ bigrams[t] # <<>>
           /\ get_stats(bigrams, sentence_starters).total_transitions
                 = (IF n >= 1 THEN n - 1 ELSE 0)

C6_Witness ==
    /\ trainCount = 1
    /\ Len(lastWords) = 3
    /\ \E t \in DOMAIN bigrams : Len(bigrams[t]) = 2 /\ bigrams[t][1] = bigrams[t][2]

\* How often the token t is expected in the starter pool of the sequence w.
ExpectedStarters(w, t) ==
    Cardinality({k \in 2..Len(w) :
                    w[k] = t /\ EndsWithEnder(w[k - 1]) /\ IsUpper(w[k][1])})
    + (IF w # <<>> /\ w[1] = t /\ IsUpper(w[1][1]) THEN 1 ELSE 0)

\* C7: starter detection: after one load_training_data on a fresh generator the
\* pool holds one entry per position, the last included, whose token starts
\* uppercase after a sentence ender, plus the first token if it starts uppercase.
C7_StarterDetection ==
    trainCount = 1 =>
        \A t \in Range(lastWords) \cup Range(sentence_starters) :
            Count(sentence_starters, t) = ExpectedStarters(lastWords, t)

\* C8: post-processing is idempotent: applied to its own output it returns it.
C8_Idempotent == ppPhase = 2 => ppOut = ppIn

C8_Witness ==
    /\ ppPhase = 2
    /\ ppIn = <<"A", ".", " ", "A", ".">>
    /\ ppOut = ppIn

\* C9: start selection: with a non-empty table the first token is taken from
\* the starter pool if it is non-empty, else from the keys that start uppercase
\* if there are any, else from all keys; the default token is never used.
C9_StartSelection ==
    Walking =>
        LET w == synopsis[1]
            upper == {k \in DOMAIN bigrams : IsUpper(k[1])}
        IN /\ sentence_starters # <<>> => w \in Range(sentence_starters)
           /\ (sentence_starters = <<>> /\ upper # {}) => w \in upper
           /\ (sentence_starters = <<>> /\ upper = {}) => w \in DOMAIN bigrams
           /\ startBranch # "default"
           /\ w # The

C9_Witness ==
    /\ Walking
    /\ sentence_starters = <<>>
    /\ IsUpper(synopsis[1][1])
    /\ \E k \in DOMAIN bigrams : ~IsUpper(k[1])

\* C10: the model is read-only outside training: every step other than a
\* load_training_data call leaves the table and the starter pool unchanged.
C10_ReadOnly == [][trainCount' = trainCount => UNCHANGED model]_vars

C10_Witness ==
    /\ pc = "post"
    /\ stop = "deadend"
    /\ current_word \notin DOMAIN bigrams
    /\ DOMAIN bigrams # {}

====
